---- MODULE Spec2Model ----
(***************************************************************************)
(* Model of making_gcp_instance_group: one run of                          *)
(* InstanceGroupCreator.launch_instance_group, which builds and submits an *)
(* instance template (InstanceTemplateCreator.create_template), creates a  *)
(* managed instance group from it and polls the group's managed instances. *)
(* The cloud provider is the environment: every API call either returns or *)
(* raises, and every list call returns an arbitrary set of instances.      *)
(***************************************************************************)
EXTENDS Integers, Sequences, FiniteSets, TLC

VARIABLES
    pc,            \* position of the single thread of control
    vm_config,     \* InstanceTemplateCreator.vm_config
    node_count,    \* InstanceGroupCreator.node_count
    template,      \* InstanceTemplateCreator.template (properties)
    calls,         \* calls out of the program so far, in order, with outcome
    trial,         \* _get_instance_ids: trial
    instance_ids,  \* _get_instance_ids: instance_ids
    sleeps,        \* arguments of the time.sleep calls so far, in order
    first_pager,   \* history: what the first list call returned
    seen,          \* history: every instance the list calls have returned
    result,        \* return value of launch_instance_group
    error          \* exception that ended the run, "" if none

vars == <<pc, vm_config, node_count, template, calls, trial, instance_ids,
          sleeps, first_pager, seen, result, error>>

----------------------------------------------------------------------------
(* Bounds of the model *)

MaxDisks == 2
MaxNodes == 2
NumIds == 3

DiskNames == {"d1", "d2"}
InstanceIds == 1 .. NumIds
\* An instance whose id field is unset reads as 0, which is falsy.
NoId == 0

(* Constants of the program *)
max_trials == 10
base_sleep_num == 3
base_sleep_den == 2
python_hash_seed == 42
size_gb == 50

VMType == {"STANDARD", "SPOT", "PREEMPTIBLE"}
\* vm_type is not checked at construction, so any value can arrive.
VMTypeInputs == VMType \cup {"UNKNOWN"}

----------------------------------------------------------------------------
(* Pure helpers *)

RECURSIVE Pow(_, _)
Pow(b, e) == IF e = 0 THEN 1 ELSE b * Pow(b, e - 1)

RECURSIVE Join(_, _)
\* sep.join(names)
Join(names, sep) ==
    IF Len(names) = 0 THEN ""
    ELSE IF Len(names) = 1 THEN names[1]
    ELSE names[1] \o sep \o Join(Tail(names), sep)

RECURSIVE QuoteAll(_)
QuoteAll(names) ==
    IF Len(names) = 0 THEN <<>>
    ELSE <<"'" \o names[1] \o "'">> \o QuoteAll(Tail(names))

\* str(list_of_strings)
StrList(names) == "[" \o Join(QuoteAll(names), ", ") \o "]"

RECURSIVE SeqsUpTo(_, _)
SeqsUpTo(S, n) ==
    IF n = 0 THEN {<<>>}
    ELSE LET shorter == SeqsUpTo(S, n - 1)
         IN  shorter \cup {Append(s, x) : s \in {t \in shorter : Len(t) = n - 1}, x \in S}

Range(s) == {s[i] : i \in 1 .. Len(s)}

\* All orders in which list(a_set) can enumerate the set.
Orderings(S) ==
    {s \in SeqsUpTo(S, Cardinality(S)) : Len(s) = Cardinality(S) /\ Range(s) = S}

----------------------------------------------------------------------------
(* Provider messages, with the defaults an unset field reads as *)

EmptyScheduling ==
    [present |-> {}, preemptible |-> FALSE,
     provisioning_model |-> "", on_host_maintenance |-> ""]

EmptyTemplate ==
    [name |-> "group",
     disks |-> <<>>,
     metadata_items |-> <<>>,
     network_interfaces |-> <<>>,
     machine_type |-> "",
     guest_accelerators |-> <<>>,
     service_accounts |-> <<>>,
     labels |-> "",
     scheduling |-> EmptyScheduling]

Items(k, v) == [key |-> k, value |-> v]

\* The boot disk built by _create_book_disk from the resolved image.
BootDisk ==
    [auto_delete |-> TRUE, boot |-> TRUE, mode |-> "",
     device_name |-> "ubuntu-2204-jammy-v20230714", source |-> "",
     initialize_params |-> <<[source_image |-> "image.self_link",
                              disk_size_gb |-> size_gb,
                              labels |-> "labels"]>>]

\* One AttachedDisk of _attach_disks.
AttachedDisk(disk_name) ==
    [auto_delete |-> FALSE, boot |-> FALSE, mode |-> "READ_ONLY",
     device_name |-> disk_name, source |-> disk_name,
     initialize_params |-> <<>>]

\* Variant: each disk is inserted right after the boot disk.
AppendDisksReversed(disks, disk_names) ==
    disks \o [i \in 1 .. Len(disk_names) |->
                 AttachedDisk(disk_names[Len(disk_names) + 1 - i])]

\* The for loop of _attach_disks: one append per name, in list order.
AppendDisks(disks, disk_names) ==
    disks \o [i \in 1 .. Len(disk_names) |-> AttachedDisk(disk_names[i])]

\* The metadata item _attach_disks adds when the list is not empty.
DisksItem(items, disk_names) ==
    IF Len(disk_names) > 0
    THEN Append(items, Items("disks", Join(disk_names, "\n")))
    ELSE items

\* vm_metadata_config.items(): the fields of VMMetadataConfig in order;
\* disks is interpolated from vm_config.disks.
VMMetadataConfig(disk_names, n) ==
    << <<"instance_group_name", "group">>,
       <<"zone", "zone">>,
       <<"python_hash_seed", ToString(python_hash_seed)>>,
       <<"node_count", ToString(n)>>,
       <<"disks", StrList(disk_names)>> >>

\* _attach_metadata: startup-script first, then one item per config field.
MetadataItems(items, config) ==
    Append(items, Items("startup-script", "script"))
      \o [i \in 1 .. Len(config) |-> Items(config[i][1], config[i][2])]

\* The accelerator block is set only for a positive count.
GuestAccelerators(cfg) ==
    IF cfg.accelerator_count > 0
    THEN <<[accelerator_type |-> cfg.accelerator_type,
            accelerator_count |-> cfg.accelerator_count]>>
    ELSE <<>>

\* Variant: the chain has no else branch.
UnsupportedNever(vm_type) == FALSE

\* The if/elif chain of _create_machine_configuration reaches its else.
Unsupported(vm_type) ==
    /\ vm_type # "PREEMPTIBLE"
    /\ vm_type # "SPOT"
    /\ vm_type # "STANDARD"

\* Variant: the preemptible branch also asks for TERMINATE.
SchedulingPreemptibleTerminate(vm_type, old) ==
    IF vm_type = "PREEMPTIBLE"
    THEN [EmptyScheduling EXCEPT
              !.present = {"preemptible", "on_host_maintenance"},
              !.preemptible = TRUE,
              !.on_host_maintenance = "TERMINATE"]
    ELSE IF vm_type \in {"SPOT", "STANDARD"}
    THEN [EmptyScheduling EXCEPT
              !.present = {"provisioning_model", "on_host_maintenance"},
              !.provisioning_model = vm_type,
              !.on_host_maintenance = "TERMINATE"]
    ELSE old

\* The Scheduling message of each branch of the chain.
Scheduling(vm_type, old) ==
    IF vm_type = "PREEMPTIBLE"
    THEN [EmptyScheduling EXCEPT !.present = {"preemptible"},
                                 !.preemptible = TRUE]
    ELSE IF vm_type = "SPOT"
    THEN [EmptyScheduling EXCEPT
              !.present = {"provisioning_model", "on_host_maintenance"},
              !.provisioning_model = "SPOT",
              !.on_host_maintenance = "TERMINATE"]
    ELSE IF vm_type = "STANDARD"
    THEN [EmptyScheduling EXCEPT
              !.present = {"provisioning_model", "on_host_maintenance"},
              !.provisioning_model = "STANDARD",
              !.on_host_maintenance = "TERMINATE"]
    ELSE old

----------------------------------------------------------------------------
(* The run *)

ApiCall(name, ok) == Append(calls, [api |-> name, ok |-> ok])

\* Blocks until the provider reports the operation finished and raises
\* when the operation failed.
wait_for_extended_operation(finished_ok) ==
    IF finished_ok THEN "returned" ELSE "raised"

Raise(what) ==
    /\ pc' = "raised"
    /\ error' = what

Polling == <<trial, instance_ids, sleeps, first_pager, seen, result>>

Init ==
    /\ pc = "create_book_disk"
    /\ vm_config \in [machine_type : {"n1-standard-1"},
                      accelerator_count : 0 .. 1,
                      accelerator_type : {"nvidia-tesla-t4"},
                      vm_type : VMTypeInputs,
                      disks : SeqsUpTo(DiskNames, MaxDisks)]
    /\ node_count \in 0 .. MaxNodes
    /\ template = EmptyTemplate
    /\ calls = <<>>
    /\ trial = 0
    /\ instance_ids = {}
    /\ sleeps = <<>>
    /\ first_pager = {}
    /\ seen = {}
    /\ result = <<>>
    /\ error = ""

\* image_client.get, then the boot disk becomes the whole disk list.
_create_book_disk ==
    /\ pc = "create_book_disk"
    /\ \E ok \in BOOLEAN :
         /\ calls' = ApiCall("images.get", ok)
         /\ IF ok
            THEN /\ template' = [template EXCEPT !.disks = <<BootDisk>>]
                 /\ pc' = "attach_disks"
                 /\ error' = error
            ELSE /\ Raise("images.get")
                 /\ template' = template
    /\ UNCHANGED <<vm_config, node_count, Polling>>

_attach_disks ==
    /\ pc = "attach_disks"
    /\ template' = [template EXCEPT
           !.disks = AppendDisks(@, vm_config.disks),
           !.metadata_items = DisksItem(@, vm_config.disks)]
    /\ pc' = "create_network_interface"
    /\ UNCHANGED <<vm_config, node_count, calls, error, Polling>>

_create_network_interface ==
    /\ pc = "create_network_interface"
    /\ template' = [template EXCEPT !.network_interfaces =
           <<[name |-> "nic0", network |-> "network",
              subnetwork |-> "subnetwork",
              access_configs |-> <<[network_tier |-> "PRIMIUM",
                                    type_ |-> "ONE_TO_ONE_NAT"]>>]>>]
    /\ pc' = "create_machine_configuration"
    /\ UNCHANGED <<vm_config, node_count, calls, error, Polling>>

_create_machine_configuration ==
    /\ pc = "create_machine_configuration"
    /\ template' = [template EXCEPT
           !.machine_type = vm_config.machine_type,
           !.guest_accelerators = GuestAccelerators(vm_config),
           !.service_accounts = <<[email |-> "default", scopes |-> "scopes"]>>,
           !.labels = "labels",
           !.scheduling = Scheduling(vm_config.vm_type, @)]
    /\ IF Unsupported(vm_config.vm_type)
       THEN Raise("RuntimeError: Unsupported vm_type")
       ELSE /\ pc' = "attach_metadata"
            /\ error' = error
    /\ UNCHANGED <<vm_config, node_count, calls, Polling>>

_attach_metadata ==
    /\ pc = "attach_metadata"
    /\ template' = [template EXCEPT !.metadata_items =
           MetadataItems(@, VMMetadataConfig(vm_config.disks, node_count))]
    /\ pc' = "template_insert"
    /\ UNCHANGED <<vm_config, node_count, calls, error, Polling>>

\* One provider call that either returns or raises.
Call(at, name, next) ==
    /\ pc = at
    /\ \E ok \in BOOLEAN :
         /\ calls' = ApiCall(name, ok)
         /\ IF ok
            THEN /\ pc' = next
                 /\ error' = error
            ELSE Raise(name)
    /\ UNCHANGED <<vm_config, node_count, template, Polling>>

\* wait_for_extended_operation on a submitted operation.
Wait(at, name, next) ==
    /\ pc = at
    /\ \E finished_ok \in BOOLEAN :
         /\ calls' = ApiCall(name, finished_ok)
         /\ IF wait_for_extended_operation(finished_ok) = "returned"
            THEN /\ pc' = next
                 /\ error' = error
            ELSE Raise(name)
    /\ UNCHANGED <<vm_config, node_count, template, Polling>>

TemplateInsert == Call("template_insert", "instance_templates.insert", "template_wait")

TemplateWait == Wait("template_wait", "wait instance template creation", "template_get")

TemplateGet == Call("template_get", "instance_templates.get", "group_insert")

\* Variant: the group is inserted without waiting for the template operation.
GroupInsertWithoutWait ==
    Call("template_wait", "instance_group_managers.insert", "group_wait")

GroupInsert == Call("group_insert", "instance_group_managers.insert", "group_wait")

GroupWait == Wait("group_wait", "wait managed instance group creation", "group_get")

GroupGet == Call("group_get", "instance_group_managers.get", "while")

----------------------------------------------------------------------------
(* _get_instance_ids *)

\* What one list_managed_instances call can return: any instances, some of
\* which may not have an id yet.
Pagers == SUBSET (InstanceIds \cup {NoId})

NumCalls(name) == Cardinality({i \in 1 .. Len(calls) : calls[i].api = name})

\* Variant: while trial <= max_trials + 1
LoopConditionExtra(t) == t <= max_trials + 1

\* Variant: while trial < max_trials
LoopConditionStrict(t) == t < max_trials

\* while trial <= max_trials
LoopCondition(t) == t <= max_trials

\* Variant: the set is rebuilt from each pager.
AddIdsOverwrite(ids, pager) == {id \in pager : id # NoId}

\* for instance in pager: if instance.id: instance_ids.add(instance.id)
AddIds(ids, pager) == ids \cup {id \in pager : id # NoId}

\* Variant: if len(instance_ids) > node_count: break
EnoughStrict(ids, n) == Cardinality(ids) > n

\* if len(instance_ids) >= node_count: break
Enough(ids, n) == Cardinality(ids) >= n

\* pow(base_sleep_time, trial), as a fraction
SleepTime(t) ==
    [exponent |-> t, num |-> Pow(base_sleep_num, t), den |-> Pow(base_sleep_den, t)]

While ==
    /\ pc = "while"
    /\ pc' = IF LoopCondition(trial) THEN "list" ELSE "return"
    /\ UNCHANGED <<vm_config, node_count, template, calls, error, Polling>>

list_instances_in_group ==
    /\ pc = "list"
    /\ \E ok \in BOOLEAN :
         /\ calls' = ApiCall("instance_group_managers.list_managed_instances", ok)
         /\ IF ok
            THEN \E pager \in Pagers :
                   /\ instance_ids' = AddIds(instance_ids, pager)
                   /\ seen' = seen \cup (pager \cap InstanceIds)
                   /\ first_pager' =
                        IF NumCalls("instance_group_managers.list_managed_instances") = 0
                        THEN pager ELSE first_pager
                   /\ pc' = "if"
                   /\ error' = error
            ELSE /\ Raise("instance_group_managers.list_managed_instances")
                 /\ UNCHANGED <<instance_ids, seen, first_pager>>
    /\ UNCHANGED <<vm_config, node_count, template, trial, sleeps, result>>

Break ==
    /\ pc = "if"
    /\ pc' = IF Enough(instance_ids, node_count) THEN "return" ELSE "sleep"
    /\ UNCHANGED <<vm_config, node_count, template, calls, error, Polling>>

Sleep ==
    /\ pc = "sleep"
    /\ calls' = ApiCall("time.sleep", TRUE)
    /\ sleeps' = Append(sleeps, SleepTime(trial))
    /\ trial' = trial + 1
    /\ pc' = "while"
    /\ UNCHANGED <<vm_config, node_count, template, error,
                   instance_ids, first_pager, seen, result>>

\* return list(instance_ids): the order of a set's elements is not fixed.
Return ==
    /\ pc = "return"
    /\ \E r \in Orderings(instance_ids) : result' = r
    /\ pc' = "done"
    /\ UNCHANGED <<vm_config, node_count, template, calls, error,
                   trial, instance_ids, sleeps, first_pager, seen>>

create_template ==
    \/ _create_book_disk
    \/ _attach_disks
    \/ _create_network_interface
    \/ _create_machine_configuration
    \/ _attach_metadata
    \/ TemplateInsert
    \/ TemplateWait
    \/ TemplateGet

_create_instance_group ==
    \/ create_template
    \/ GroupInsert
    \/ GroupWait
    \/ GroupGet

_get_instance_ids ==
    \/ While
    \/ list_instances_in_group
    \/ Break
    \/ Sleep
    \/ Return

Next ==
    \/ _create_instance_group
    \/ _get_instance_ids

Spec == Init /\ [][Next]_vars

TypeOK ==
    /\ trial \in 0 .. max_trials + 1
    /\ instance_ids \subseteq InstanceIds

----------------------------------------------------------------------------
(* Properties *)

ImageGet == "images.get"
TemplateInsertApi == "instance_templates.insert"
TemplateWaitApi == "wait instance template creation"
GroupInsertApi == "instance_group_managers.insert"
GroupWaitApi == "wait managed instance group creation"
ListApi == "instance_group_managers.list_managed_instances"
SleepApi == "time.sleep"

\* Call number i was preceded by a successful call of api a.
DoneBefore(a, i) == \E j \in 1 .. i - 1 : calls[j].api = a /\ calls[j].ok

\* The template has been handed to the provider.
Submitted == NumCalls(TemplateInsertApi) > 0

\* The list attempts that returned, and the ids they carried.
FirstIds == first_pager \cap InstanceIds
FirstListReturned == \E i \in 1 .. Len(calls) : calls[i].api = ListApi /\ calls[i].ok

\* C1: the group insert is issued only after the template insert and its
\* wait both succeeded, the first list only after the group insert and its
\* wait both succeeded, and neither is issued after any earlier step failed.
C1_Ordering ==
    \A i \in 1 .. Len(calls) :
        /\ calls[i].api = GroupInsertApi =>
             /\ \E k \in 1 .. i - 1 :
                  /\ calls[k].api = TemplateWaitApi /\ calls[k].ok
                  /\ DoneBefore(TemplateInsertApi, k)
             /\ \A j \in 1 .. i - 1 : calls[j].ok
        /\ calls[i].api = ListApi =>
             /\ \E k \in 1 .. i - 1 :
                  /\ calls[k].api = GroupWaitApi /\ calls[k].ok
                  /\ DoneBefore(GroupInsertApi, k)
             /\ \A j \in 1 .. i - 1 : calls[j].ok

C1_Witness ==
    /\ pc = "if"
    /\ NumCalls(ListApi) = 1
    /\ NumCalls(GroupInsertApi) = 1

\* C2 as stated: with a VM type outside STANDARD, SPOT and PREEMPTIBLE the
\* fatal error is raised before any call to the provider has been made.
C2_NoCallBeforeRaise ==
    (vm_config.vm_type \notin VMType /\ pc = "raised"
        /\ error = "RuntimeError: Unsupported vm_type")
    => calls = <<>>

\* C2 amended: with such a VM type the run never gets past
\* _create_machine_configuration; the only provider call it makes is the boot
\* image get, and the fatal error is raised right after that call returned,
\* before any template insert, group insert or list.
C2_RaiseAfterImageGetOnly ==
    vm_config.vm_type \notin VMType =>
        /\ pc \in {"create_book_disk", "attach_disks", "create_network_interface",
                   "create_machine_configuration", "raised"}
        /\ Len(calls) <= 1
        /\ \A i \in 1 .. Len(calls) : calls[i].api = ImageGet
        /\ pc = "raised" =>
             \/ error = ImageGet /\ calls = <<[api |-> ImageGet, ok |-> FALSE]>>
             \/ /\ error = "RuntimeError: Unsupported vm_type"
                /\ calls = <<[api |-> ImageGet, ok |-> TRUE]>>

C2_Witness ==
    /\ vm_config.vm_type \notin VMType
    /\ pc = "raised"
    /\ error = "RuntimeError: Unsupported vm_type"

\* C3: with node_count >= 1 and no list call ever returning an instance with
\* an id, the loop ends after exactly 11 list attempts and returns [].
C3_ElevenAttemptsEmpty ==
    (node_count >= 1 /\ seen = {}) =>
        /\ NumCalls(ListApi) <= 11
        /\ pc \in {"return", "done"} =>
             /\ NumCalls(ListApi) = 11
             /\ trial = 11
        /\ pc = "done" => result = <<>>

C3_Witness ==
    /\ pc = "done"
    /\ node_count >= 1
    /\ seen = {}
    /\ NumCalls(ListApi) = 11

\* C4: when the first list call returns at least node_count distinct ids,
\* the loop makes that one list attempt only, never sleeps, and returns
\* exactly those ids.
C4_FirstCallSuffices ==
    (FirstListReturned /\ Cardinality(FirstIds) >= node_count) =>
        /\ NumCalls(ListApi) = 1
        /\ sleeps = <<>>
        /\ pc \in {"if", "return", "done"}
        /\ pc = "done" =>
             /\ Range(result) = FirstIds
             /\ Len(result) = Cardinality(FirstIds)

C4_Witness ==
    /\ pc = "done"
    /\ node_count = 2
    /\ Cardinality(FirstIds) = 2
    /\ NumCalls(ListApi) = 1

\* C5: when the retry budget runs out with fewer than node_count distinct
\* ids observed, the run returns without an error and the result holds each
\* id observed in any list call exactly once.
C5_PartialResult ==
    (pc = "done" /\ Cardinality(seen) < node_count) =>
        /\ trial > max_trials
        /\ error = ""
        /\ Range(result) = seen
        /\ Len(result) = Cardinality(seen)

C5_Witness ==
    /\ pc = "done"
    /\ trial > max_trials
    /\ Cardinality(seen) = 1
    /\ node_count = 2

\* C6 as stated: no run issues more than 10 list calls.
C6_AtMostTenLists == NumCalls(ListApi) <= 10

\* C6 amended: no run issues more than 11 list calls (trial 0 through 10),
\* and the loop is left early only once node_count ids have been collected.
C6_AtMostElevenLists ==
    /\ NumCalls(ListApi) <= max_trials + 1
    /\ (pc \in {"return", "done"} /\ NumCalls(ListApi) < max_trials + 1) =>
          Cardinality(seen) >= node_count

C6_Witness ==
    /\ NumCalls(ListApi) = max_trials + 1
    /\ pc = "done"
    /\ seen # {}

\* C7: the submitted template's disk list is the boot disk followed by one
\* read-only non-boot disk per attached disk name, in input order.
C7_DiskList ==
    Submitted =>
        /\ Len(template.disks) = 1 + Len(vm_config.disks)
        /\ template.disks[1].boot
        /\ template.disks[1].initialize_params # <<>>
        /\ \A i \in 1 .. Len(vm_config.disks) :
             /\ ~template.disks[i + 1].boot
             /\ template.disks[i + 1].mode = "READ_ONLY"
             /\ template.disks[i + 1].device_name = vm_config.disks[i]
             /\ template.disks[i + 1].source = vm_config.disks[i]

C7_Witness ==
    /\ Submitted
    /\ vm_config.disks = <<"d2", "d1">>

\* C8: once _create_machine_configuration has run, the scheduling block is
\* fixed by the VM type: STANDARD and SPOT carry TERMINATE and their
\* provisioning model and no preemptible flag; PREEMPTIBLE carries the
\* preemptible flag and nothing else.
C8_Scheduling ==
    pc \notin {"create_book_disk", "attach_disks", "create_network_interface",
               "create_machine_configuration", "raised"} =>
        /\ vm_config.vm_type \in {"STANDARD", "SPOT"} =>
             /\ template.scheduling.present =
                  {"provisioning_model", "on_host_maintenance"}
             /\ template.scheduling.on_host_maintenance = "TERMINATE"
             /\ template.scheduling.provisioning_model = vm_config.vm_type
        /\ vm_config.vm_type = "PREEMPTIBLE" =>
             /\ template.scheduling.present = {"preemptible"}
             /\ template.scheduling.preemptible

C8_Witness ==
    /\ pc = "attach_metadata"
    /\ vm_config.vm_type = "PREEMPTIBLE"
    /\ vm_config.accelerator_count = 1
    /\ vm_config.disks # <<>>

\* C9: sleep number k has exponent k - 1 and comes right after list attempt
\* number k, every sleep is followed by another list attempt, and the loop
\* is never left right after a sleep.
C9_SleepOnlyBetweenAttempts ==
    /\ Len(sleeps) = NumCalls(SleepApi)
    /\ \A k \in 1 .. Len(sleeps) : sleeps[k].exponent = k - 1
    /\ \A i \in 1 .. Len(calls) :
         calls[i].api = SleepApi =>
            /\ i > 1
            /\ calls[i - 1].api = ListApi
    /\ pc \in {"return", "done"} => calls[Len(calls)].api # SleepApi

\* C10: no two metadata items of the submitted template share a key.
C10_UniqueMetadataKeys ==
    Submitted =>
        \A i, j \in 1 .. Len(template.metadata_items) :
            i # j => template.metadata_items[i].key # template.metadata_items[j].key

====
